---- MODULE Spec2Model ----
(***************************************************************************)
(* Model of the WCPMS client (wcpms_plugin/controller/wcpms_client.py):    *)
(* the request/response adapter (get_phenometrics, get_timeseries_region,  *)
(* get_phenometrics_region, get_collections, get_description) and the      *)
(* chart builders (plot_phenometrics and its three variants).              *)
(*                                                                         *)
(* Python values are tagged records so that values of different Python     *)
(* types are never compared by payload:                                    *)
(*   [t |-> "none"]                      None / no value                   *)
(*   [t |-> "num",  n |-> Int]           a number                          *)
(*   [t |-> "str",  s |-> Seq(token)]    a string                          *)
(*   [t |-> "list", items |-> Seq(val)]  a list                            *)
(*   [t |-> "obj",  fields |-> [keys -> val]]  a dict / JSON object        *)
(* A string is a sequence of tokens; a token is either a run of characters *)
(* that urllib leaves alone (letters, digits, "_", ".", "-", "~") or one   *)
(* single other character.                                                 *)
(***************************************************************************)
EXTENDS Integers, Sequences, FiniteSets, TLC

VARIABLES
    op,         \* adapter: name of the last operation called ("" = none yet)
    args,       \* adapter: the arguments of the last call
    sent,       \* adapter: the HTTP requests the last call issued, in order
    reply,      \* adapter: what the network answered to the last call
    outcome,    \* adapter: how the last call ended (return value or exception)
    nCalls,     \* adapter: number of adapter calls made so far
    nRequests,  \* adapter: number of HTTP requests sent so far
    ds_phenos,  \* chart: the input handed to the chart builder
    variant,    \* chart: name of the chart function that ran ("" = none yet)
    fig         \* chart: the figure it built, or the exception it raised

vars == <<op, args, sent, reply, outcome, nCalls, nRequests, ds_phenos, variant, fig>>

adapterVars == <<op, args, sent, reply, outcome, nCalls, nRequests>>

chartVars == <<ds_phenos, variant, fig>>

(***************************************************************************)
(* Bounds of the model.                                                    *)
(***************************************************************************)
MaxCalls == 2

\* Every series of up to MaxSeriesLen values is charted, and two ramps of
\* each longer length (see SeriesInputs).
MaxSeriesLen == 3

(***************************************************************************)
(* Python values.                                                          *)
(***************************************************************************)
None == [t |-> "none"]

Num(n) == [t |-> "num", n |-> n]

Str(s) == [t |-> "str", s |-> s]

List(items) == [t |-> "list", items |-> items]

Obj(fields) == [t |-> "obj", fields |-> fields]

\* The result of evaluating a Python expression: a value, or an exception.
Ok(v) == [ok |-> TRUE, value |-> v, error |-> ""]

Raise(e) == [ok |-> FALSE, value |-> None, error |-> e]

\* v[key] with a string key, as Python evaluates it.
GetItem(v, key) ==
    IF v.t = "obj"
    THEN IF key \in DOMAIN v.fields THEN Ok(v.fields[key]) ELSE Raise("KeyError")
    ELSE Raise("TypeError")

(***************************************************************************)
(* urllib.parse.urlencode(query) as get_phenometrics uses it: each value   *)
(* goes through str() and quote_plus(), pairs are joined by "&".           *)
(***************************************************************************)
\* str(v) for the values that reach urlencode: strings and numbers.
PyStr(v) == IF v.t = "str" THEN v.s ELSE <<ToString(v.n)>>

\* quote_plus of one token: a space becomes "+", a reserved character its
\* percent escape, everything else is left alone.
quote_plus_tok(c) ==
    CASE c = " " -> "+"
      [] c = "&" -> "%26"
      [] c = "=" -> "%3D"
      [] c = "+" -> "%2B"
      [] c = "/" -> "%2F"
      [] c = "?" -> "%3F"
      [] c = ":" -> "%3A"
      [] c = "%" -> "%25"
      [] OTHER   -> c

quote_plus(s) == [i \in 1..Len(s) |-> quote_plus_tok(s[i])]

RECURSIVE JoinPairs(_)
JoinPairs(pairs) ==
    IF pairs = <<>> THEN <<>>
    ELSE LET kv == Head(pairs)
             one == quote_plus(<<kv[1]>>) \o <<"=">> \o quote_plus(PyStr(kv[2]))
         IN  IF Len(pairs) = 1 THEN one
             ELSE one \o <<"&">> \o JoinPairs(Tail(pairs))

urlencode(query) == JoinPairs(query)

(***************************************************************************)
(* The requests library, as far as the client sees it.                     *)
(***************************************************************************)
\* A request handed to requests.get / requests.post.
Request(method, url, json) == [method |-> method, url |-> url, json |-> json]

\* Response.json(): the decoded body, whatever the status code is.
ResponseJson(data) ==
    IF data.body.valid THEN Ok(data.body.json) ELSE Raise("JSONDecodeError")

\* The tail shared by the operations: data = requests.<method>(...);
\* data_json = data.json(); return data_json[field]. requests raises
\* ConnectionError itself when the host cannot be reached.
Unwrap(net, field) ==
    IF ~net.reached THEN Raise("ConnectionError")
    ELSE LET data_json == ResponseJson(net)
         IN  IF ~data_json.ok THEN data_json
             ELSE GetItem(data_json.value, field)

\* A client that tries once more after a failure.
Call_retry(req, net, field) ==
    [requests |-> IF Unwrap(net, field).ok THEN <<req>> ELSE <<req, req>>,
     outcome |-> Unwrap(net, field)]

\* One blocking HTTP call followed by the unwrapping of one field: the
\* requests the call put on the wire, and how it ended.
Call(req, net, field) == [requests |-> <<req>>, outcome |-> Unwrap(net, field)]

(***************************************************************************)
(* The adapter operations.                                                 *)
(***************************************************************************)
cube_query(collection, start_date, end_date, freq, band) ==
    [collection |-> collection, band |-> band, start_date |-> start_date,
     end_date |-> end_date, freq |-> freq]

\* The point query with latitude and longitude taken from each other.
get_phenometrics_swapped(url, cube, latitude, longitude, net) ==
    LET query == << <<"collection", cube.collection>>,
                    <<"band", cube.band>>,
                    <<"start_date", cube.start_date>>,
                    <<"end_date", cube.end_date>>,
                    <<"freq", cube.freq>>,
                    <<"latitude", longitude>>,
                    <<"longitude", latitude>> >>
        url_suffix == <<"/", "phenometrics", "?">> \o urlencode(query)
    IN  Call(Request("GET", url \o url_suffix, None), net, "result")

get_phenometrics(url, cube, latitude, longitude, net) ==
    LET query == << <<"collection", cube.collection>>,
                    <<"band", cube.band>>,
                    <<"start_date", cube.start_date>>,
                    <<"end_date", cube.end_date>>,
                    <<"freq", cube.freq>>,
                    <<"latitude", latitude>>,
                    <<"longitude", longitude>> >>
        url_suffix == <<"/", "phenometrics", "?">> \o urlencode(query)
    IN  Call(Request("GET", url \o url_suffix, None), net, "result")

get_collections(url, net) ==
    LET url_suffix == <<"/", "list_collections">>
    IN  Call(Request("GET", url \o url_suffix, None), net, "coverages")

\* The row get_description builds for one item of the description list:
\* '<td>'+item['Code']+... needs the keys Code, Name, Description and Method
\* to exist and to hold strings, and the keys Value and Time to exist.
RECURSIVE RowError(_, _)
RowError(item, keys) ==
    IF keys = <<>> THEN ""
    ELSE LET k == Head(keys)
             got == GetItem(item, k)
         IN  IF ~got.ok THEN got.error
             ELSE IF k \in {"Code", "Name", "Description", "Method"} /\ got.value.t # "str"
                  THEN "TypeError"
                  ELSE RowError(item, Tail(keys))

\* The keys of a dict, as the strings a loop over the dict visits.
RECURSIVE KeySeq(_)
KeySeq(keys) ==
    IF keys = {} THEN <<>>
    ELSE LET k == CHOOSE x \in keys : TRUE
         IN  <<Str(<<k>>)>> \o KeySeq(keys \ {k})

\* The items a for loop over v visits (a dict yields its keys, a string its
\* characters), or the TypeError of a value that cannot be iterated.
Iterate(v) ==
    CASE v.t = "list" -> Ok(v.items)
      [] v.t = "str"  -> Ok([i \in 1..Len(v.s) |-> Str(<<v.s[i]>>)])
      [] v.t = "obj"  -> Ok(KeySeq(DOMAIN v.fields))
      [] OTHER        -> Raise("TypeError")

RECURSIVE TableError(_)
TableError(items) ==
    IF items = <<>> THEN ""
    ELSE LET e == RowError(Head(items),
                           <<"Code", "Name", "Description", "Method", "Value", "Time">>)
         IN  IF e # "" THEN e ELSE TableError(Tail(items))

\* describe sent to the route of list_collections.
get_description_copied(url, net) ==
    [requests |-> <<Request("GET", url \o <<"/", "list_collections">>, None)>>,
     outcome |-> Unwrap(net, "description")]

get_description(url, net) ==
    LET url_suffix == <<"/", "describe">>
        req == Request("GET", url \o url_suffix, None)
        description == Unwrap(net, "description")
        loop == Iterate(description.value)
        err == IF loop.ok THEN TableError(loop.value) ELSE loop.error
    IN  [requests |-> <<req>>,
         outcome |-> IF ~description.ok THEN description
                     ELSE IF err # "" THEN Raise(err)
                     ELSE description]

get_timeseries_region(url, cube, geom, net) ==
    LET body == Obj([collection |-> cube.collection, band |-> cube.band,
                     start_date |-> cube.start_date, end_date |-> cube.end_date,
                     freq |-> cube.freq, geom |-> geom])
        url_suffix == <<"/", "timeseries">>
    IN  Call(Request("POST", url \o url_suffix, body), net, "result")

\* The region query with the series sent under the key of the geometry.
get_phenometrics_region_geom(url, cube, timeseries, net) ==
    LET body == Obj([collection |-> cube.collection, band |-> cube.band,
                     start_date |-> cube.start_date, end_date |-> cube.end_date,
                     freq |-> cube.freq, geom |-> timeseries])
        url_suffix == <<"/", "phenometrics">>
    IN  Call(Request("POST", url \o url_suffix, body), net, "result")

get_phenometrics_region(url, cube, timeseries, net) ==
    LET body == Obj([collection |-> cube.collection, band |-> cube.band,
                     start_date |-> cube.start_date, end_date |-> cube.end_date,
                     freq |-> cube.freq, timeseries |-> timeseries])
        url_suffix == <<"/", "phenometrics">>
    IN  Call(Request("POST", url \o url_suffix, body), net, "result")

(***************************************************************************)
(* Dates. A timestamp is a string "<date>" or "<date>T<time>"; the date is *)
(* one token. A datetime is [t |-> "datetime", day, sec]: the days since   *)
(* 2021-01-01 and the seconds into that day.                               *)
(***************************************************************************)
TimelineDates ==
    << "2021-01-01", "2021-01-17", "2021-02-02", "2021-02-18", "2021-03-06",
       "2021-03-22", "2021-04-07", "2021-04-23", "2021-05-09", "2021-05-25",
       "2021-06-10", "2021-06-26", "2021-07-12", "2021-07-28", "2021-08-13",
       "2021-08-29", "2021-09-14", "2021-09-30", "2021-10-16", "2021-11-01",
       "2021-11-17", "2021-12-03", "2021-12-19" >>

DayNumber(tok) ==
    CASE tok = "2021-01-02" -> 1
      [] tok = "2021-04-01" -> 90
      [] tok = "2021-07-13" -> 193
      [] tok = "2021-12-20" -> 353
      [] OTHER -> 16 * ((CHOOSE i \in 1..Len(TimelineDates) : TimelineDates[i] = tok) - 1)

Datetime(day, sec) == [t |-> "datetime", day |-> day, sec |-> sec]

\* s.split('T')[0]: the part of the string before its first "T".
RECURSIVE BeforeT(_)
BeforeT(s) ==
    IF s = <<>> \/ Head(s) = "T" THEN <<>> ELSE <<Head(s)>> \o BeforeT(Tail(s))

split_T0(v) == Str(BeforeT(v.s))

\* datetime.strptime(s, "%Y-%m-%d") of a string that is one date.
strptime(v) == Datetime(DayNumber(v.s[1]), 0)

\* dt + timedelta(days=n)
plus_days(d, n) == Datetime(d.day + n, d.sec)

(***************************************************************************)
(* smooth_timeseries: scipy's savgol_filter with window_length 3,          *)
(* polyorder 1 and the default mode 'interp'. Inside the series a value is *)
(* the mean of itself and its two neighbours; the first and the last value *)
(* are read off the least-squares line through the first and the last      *)
(* three values. A smoothed value is the exact fraction n/6.               *)
(***************************************************************************)
Frac6(n) == [t |-> "frac", n |-> n, d |-> 6]

\* The filter without its edge handling: only the values that have both
\* neighbours come out.
savgol_filter_valid(x, window_length, polyorder) ==
    LET n == Len(x)
        v(i) == x[i].n
    IN  IF window_length > n THEN Raise("ValueError")
        ELSE Ok([i \in 1..(n - 2) |-> Frac6(2 * (v(i) + v(i + 1) + v(i + 2)))])

\* The filter with the series extended by its nearest value at both ends
\* (mode 'nearest') instead of the line fitted to the edge.
savgol_filter_nearest(x, window_length, polyorder) ==
    LET n == Len(x)
        v(i) == x[i].n
    IN  IF window_length > n THEN Raise("ValueError")
        ELSE Ok([i \in 1..n |->
                    IF i = 1 THEN Frac6(2 * (2 * v(1) + v(2)))
                    ELSE IF i = n THEN Frac6(2 * (2 * v(n) + v(n - 1)))
                    ELSE Frac6(2 * (v(i - 1) + v(i) + v(i + 1)))])

savgol_filter(x, window_length, polyorder) ==
    LET n == Len(x)
        v(i) == x[i].n
    IN  IF window_length > n THEN Raise("ValueError")
        ELSE Ok([i \in 1..n |->
                    IF i = 1 THEN Frac6(5 * v(1) + 2 * v(2) - v(3))
                    ELSE IF i = n THEN Frac6(5 * v(n) + 2 * v(n - 1) - v(n - 2))
                    ELSE Frac6(2 * (v(i - 1) + v(i) + v(i + 1)))])

smooth_timeseries(ts, method, window_length, polyorder) ==
    IF method = "savitsky" THEN savgol_filter(ts, window_length, polyorder)
    ELSE Raise("UnboundLocalError")

(***************************************************************************)
(* The chart builders. A figure is the list of its traces (a name and the  *)
(* x and y coordinates of its points) and of its vertical bands (vrects).  *)
(***************************************************************************)
Trace(name, x, y) == [name |-> name, x |-> x, y |-> y]

Figure(traces, vrects) == [ok |-> TRUE, error |-> "", traces |-> traces, vrects |-> vrects]

NoFigure(e) == [ok |-> FALSE, error |-> e, traces |-> <<>>, vrects |-> <<>>]

\* lst[:k]
Take(lst, k) == SubSeq(lst, 1, IF Len(lst) < k THEN Len(lst) ELSE k)

TruncLen == 21

UncertaintyDays == 16

\* A fill path that does not come back down to the axis.
LiosTrace_open(sos_x, pos_x, eos_x, sos_v, pos_v, eos_v) ==
    Trace(<<"LIOS">>, <<sos_x, sos_x, pos_x, eos_x>>, <<Num(0), sos_v, pos_v, eos_v>>)

\* The LIOS trace: the filled path from the axis up to the start of the
\* season, over its peak to its end and back down to the axis.
LiosTrace(sos_x, pos_x, eos_x, sos_v, pos_v, eos_v) ==
    Trace(<<"LIOS">>, <<sos_x, sos_x, pos_x, eos_x, eos_x>>,
          <<Num(0), sos_v, pos_v, eos_v, Num(0)>>)

\* The LOS trace: the line from the start of the season to its end.
LosTrace(sos_x, eos_x, sos_v, eos_v) == Trace(<<"LOS">>, <<sos_x, eos_x>>, <<sos_v, eos_v>>)

\* A band that starts at its center.
add_vrect_onesided(center) == [x0 |-> center, x1 |-> plus_days(center, UncertaintyDays)]

\* fig.add_vrect(x0=t - timedelta(days=16), x1=t + timedelta(days=16), ...)
add_vrect(center) ==
    [x0 |-> plus_days(center, 0 - UncertaintyDays), x1 |-> plus_days(center, UncertaintyDays)]

plot_phenometrics(cube, ds) ==
    LET y_new == smooth_timeseries(ds.values, "savitsky", 3, 1)
        timeline == ds.timeline
        timeseries == ds.values
        phenometrics == ds.phenometrics
        sos_d == split_T0(phenometrics.sos_t)
        pos_d == split_T0(phenometrics.pos_t)
        eos_d == split_T0(phenometrics.eos_t)
        vos_d == split_T0(phenometrics.vos_t)
    IN  IF ~y_new.ok THEN NoFigure(y_new.error)
        ELSE Figure(
            << LiosTrace(sos_d, pos_d, eos_d, phenometrics.sos_v, phenometrics.pos_v,
                         phenometrics.eos_v),
               Trace(cube.band.s, timeline, timeseries),
               Trace(<<"Smooth", " ">> \o cube.band.s, timeline, y_new.value),
               LosTrace(sos_d, eos_d, phenometrics.sos_v, phenometrics.eos_v),
               Trace(<<"AOS">>, <<pos_d, pos_d>>, <<phenometrics.pos_v, Num(0)>>),
               Trace(<<"SOS">>, <<sos_d>>, <<phenometrics.sos_v>>),
               Trace(<<"POS">>, <<pos_d>>, <<phenometrics.pos_v>>),
               Trace(<<"EOS">>, <<eos_d>>, <<phenometrics.eos_v>>),
               Trace(<<"VOS">>, <<vos_d>>, <<phenometrics.vos_v>>) >>,
            <<>>)

\* The body the matplotlib and the seaborn chart share up to the order of
\* the two points of the AOS line; the title needs two entries in attr.
MatplotlibFigure(cube, ds, attr, aos_y) ==
    LET y_new == smooth_timeseries(ds.values, "savitsky", 3, 1)
        timeline == [i \in 1..Len(ds.timeline) |-> strptime(split_T0(ds.timeline[i]))]
        timeseries == ds.values
        phenometrics == ds.phenometrics
        sos_t == strptime(split_T0(phenometrics.sos_t))
        pos_t == strptime(split_T0(phenometrics.pos_t))
        eos_t == strptime(split_T0(phenometrics.eos_t))
        vos_t == strptime(split_T0(phenometrics.vos_t))
        sos_v == phenometrics.sos_v
        pos_v == phenometrics.pos_v
        eos_v == phenometrics.eos_v
        vos_v == phenometrics.vos_v
    IN  IF ~y_new.ok THEN NoFigure(y_new.error)
        ELSE IF Len(attr) < 2 THEN NoFigure("IndexError")
        ELSE Figure(
            << LiosTrace(sos_t, pos_t, eos_t, sos_v, pos_v, eos_v),
               Trace(cube.band.s, timeline, timeseries),
               Trace(<<"Smooth", " ">> \o cube.band.s, timeline, y_new.value),
               LosTrace(sos_t, eos_t, sos_v, eos_v),
               Trace(<<"AOS">>, <<pos_t, pos_t>>, aos_y),
               Trace(<<"SOS">>, <<sos_t>>, <<sos_v>>),
               Trace(<<"POS">>, <<pos_t>>, <<pos_v>>),
               Trace(<<"EOS">>, <<eos_t>>, <<eos_v>>),
               Trace(<<"VOS">>, <<vos_t>>, <<vos_v>>) >>,
            <<>>)

plot_phenometrics_matplotlib(cube, ds, attr) ==
    MatplotlibFigure(cube, ds, attr, <<ds.phenometrics.pos_v, Num(0)>>)

plot_phenometrics_seaborn(cube, ds, attr) ==
    MatplotlibFigure(cube, ds, attr, <<Num(0), ds.phenometrics.pos_v>>)

plot_advanced_phenometrics(cube, ds) ==
    LET y_new == smooth_timeseries(ds.values, "savitsky", 3, 1)
        timeline == Take(ds.timeline, TruncLen)
        timeseries == Take(ds.values, TruncLen)
        phenometrics == ds.phenometrics
        sos_d == split_T0(phenometrics.sos_t)
        pos_d == split_T0(phenometrics.pos_t)
        eos_d == split_T0(phenometrics.eos_t)
        vos_d == split_T0(phenometrics.vos_t)
        sos_time == strptime(sos_d)
        eos_time == strptime(eos_d)
    IN  IF ~y_new.ok THEN NoFigure(y_new.error)
        ELSE Figure(
            << LiosTrace(sos_d, pos_d, eos_d, phenometrics.sos_v, phenometrics.pos_v,
                         phenometrics.eos_v),
               Trace(cube.band.s, timeline, timeseries),
               Trace(<<"Smooth", " ">> \o cube.band.s, timeline, y_new.value),
               Trace(<<"AOS">>, <<pos_d, pos_d>>, <<phenometrics.pos_v, Num(0)>>),
               Trace(<<"SOS">>, <<sos_d>>, <<phenometrics.sos_v>>),
               Trace(<<"POS">>, <<pos_d>>, <<phenometrics.pos_v>>),
               Trace(<<"VOS">>, <<vos_d>>, <<phenometrics.vos_v>>),
               Trace(<<"EOS">>, <<eos_d>>, <<phenometrics.eos_v>>) >>,
            << add_vrect(sos_time), add_vrect(eos_time) >>)

(***************************************************************************)
(* The callers' inputs and the network's answers.                          *)
(***************************************************************************)
BaseUrls ==
    { <<"http", ":", "/", "/", "host">>,
      <<"https", ":", "/", "/", "bdc", "/", "wcpms">> }

Cubes ==
    { cube_query(Str(<<"S2-16D-2">>), Str(<<"2021-01-01">>), Str(<<"2021-12-31">>),
                 Str(<<"16D">>), Str(<<"NDVI">>)),
      cube_query(Str(<<"my", " ", "cube", "&", "band", "=", "x">>), Str(<<"2021-01-01">>),
                 Str(<<"2021-12-31">>), Str(<<"16D">>), Str(<<"B", "+", "1">>)) }

Latitudes == { Num(-29), Num(0) }

Longitudes == { Num(-55) }

Geometries ==
    { Obj([type |-> Str(<<"Polygon">>), coordinates |-> List(<<>>)]),
      Obj([type |-> Str(<<"Polygon">>),
           coordinates |-> List(<<List(<<Num(-55), Num(-29)>>)>>)]) }

TimeseriesArgs ==
    { List(<<>>),
      List(<<Obj([pixel_center |-> List(<<Num(-55), Num(-29)>>),
                  values |-> List(<<Num(7000), Num(7649)>>)])>>) }

\* Items of a description list: a well-formed one, one without the key
\* Code, and one whose Code is a number.
DescriptionItem ==
    Obj([Code |-> Str(<<"sos">>), Name |-> Str(<<"Start", " ", "of", " ", "Season">>),
         Description |-> Str(<<"start">>), Method |-> Str(<<"seasonal_amplitude">>),
         Value |-> Num(1), Time |-> Num(0)])

ItemWithoutCode == Obj([Name |-> Str(<<"sos">>), Value |-> Num(1)])

ItemWithNumericCode ==
    Obj([Code |-> Num(1), Name |-> Str(<<"sos">>), Description |-> Str(<<"start">>),
         Method |-> Str(<<"m">>), Value |-> Num(1), Time |-> Num(0)])

\* What the field an operation consumes may hold.
Payloads ==
    { None,
      Obj([sos_t |-> Str(<<"2021-01-02", "T", "00", ":", "00", ":", "00">>),
           sos_v |-> Num(7649)]),
      List(<<Str(<<"S2-16D-2">>)>>),
      List(<<DescriptionItem>>),
      List(<<DescriptionItem, ItemWithoutCode>>),
      List(<<ItemWithNumericCode>>) }

\* The JSON documents a response body may decode to.
JsonDocs ==
    { List(<<>>), Obj([message |-> Str(<<"Internal", " ", "Server", " ", "Error">>)]) }
    \cup { Obj([result |-> v]) : v \in Payloads }
    \cup { Obj([coverages |-> v]) : v \in Payloads }
    \cup { Obj([description |-> v]) : v \in Payloads }

Bodies ==
    { [valid |-> FALSE, json |-> None] } \cup { [valid |-> TRUE, json |-> j] : j \in JsonDocs }

Statuses == { 200, 500 }

\* requests.Response.ok / raise_for_status(): statuses of 400 and above are errors.
IsSuccess(status) == status \in 200..299

Unreachable == [reached |-> FALSE, status |-> 0, body |-> [valid |-> FALSE, json |-> None]]

Replies ==
    { Unreachable }
    \cup { [reached |-> TRUE, status |-> st, body |-> b] : st \in Statuses, b \in Bodies }

(***************************************************************************)
(* The adapter as a state machine: a caller makes one call after another.  *)
(***************************************************************************)
NoArgs == [url |-> <<>>]

Init ==
    /\ op = ""
    /\ args = NoArgs
    /\ sent = <<>>
    /\ reply = Unreachable
    /\ outcome = Raise("")
    /\ nCalls = 0
    /\ nRequests = 0
    /\ ds_phenos = None
    /\ variant = ""
    /\ fig = None

\* One call of each operation: the caller's arguments and the network's
\* answer are free, the call runs to its end.
GetPhenometrics ==
    /\ nCalls < MaxCalls
    /\ \E url \in BaseUrls, cube \in Cubes, lat \in Latitudes, lon \in Longitudes,
          net \in Replies :
         \E r \in { get_phenometrics(url, cube, lat, lon, net) } :
             /\ op' = "get_phenometrics"
             /\ args' = [url |-> url, cube |-> cube, latitude |-> lat, longitude |-> lon]
             /\ sent' = r.requests
             /\ reply' = net
             /\ outcome' = r.outcome
             /\ nCalls' = nCalls + 1
             /\ nRequests' = nRequests + Len(r.requests)
    /\ UNCHANGED chartVars

GetTimeseriesRegion ==
    /\ nCalls < MaxCalls
    /\ \E url \in BaseUrls, cube \in Cubes, geom \in Geometries, net \in Replies :
         \E r \in { get_timeseries_region(url, cube, geom, net) } :
             /\ op' = "get_timeseries_region"
             /\ args' = [url |-> url, cube |-> cube, geom |-> geom]
             /\ sent' = r.requests
             /\ reply' = net
             /\ outcome' = r.outcome
             /\ nCalls' = nCalls + 1
             /\ nRequests' = nRequests + Len(r.requests)
    /\ UNCHANGED chartVars

GetPhenometricsRegion ==
    /\ nCalls < MaxCalls
    /\ \E url \in BaseUrls, cube \in Cubes, ts \in TimeseriesArgs, net \in Replies :
         \E r \in { get_phenometrics_region(url, cube, ts, net) } :
             /\ op' = "get_phenometrics_region"
             /\ args' = [url |-> url, cube |-> cube, timeseries |-> ts]
             /\ sent' = r.requests
             /\ reply' = net
             /\ outcome' = r.outcome
             /\ nCalls' = nCalls + 1
             /\ nRequests' = nRequests + Len(r.requests)
    /\ UNCHANGED chartVars

GetCollections ==
    /\ nCalls < MaxCalls
    /\ \E url \in BaseUrls, net \in Replies :
         \E r \in { get_collections(url, net) } :
             /\ op' = "get_collections"
             /\ args' = [url |-> url]
             /\ sent' = r.requests
             /\ reply' = net
             /\ outcome' = r.outcome
             /\ nCalls' = nCalls + 1
             /\ nRequests' = nRequests + Len(r.requests)
    /\ UNCHANGED chartVars

GetDescription ==
    /\ nCalls < MaxCalls
    /\ \E url \in BaseUrls, net \in Replies :
         \E r \in { get_description(url, net) } :
             /\ op' = "get_description"
             /\ args' = [url |-> url]
             /\ sent' = r.requests
             /\ reply' = net
             /\ outcome' = r.outcome
             /\ nCalls' = nCalls + 1
             /\ nRequests' = nRequests + Len(r.requests)
    /\ UNCHANGED chartVars

Next ==
    \/ GetPhenometrics
    \/ GetTimeseriesRegion
    \/ GetPhenometricsRegion
    \/ GetCollections
    \/ GetDescription

Spec == Init /\ [][Next]_vars

(***************************************************************************)
(* The chart builders as a state machine: a caller holds one response of   *)
(* the service (a phenometrics record and the series it was computed from) *)
(* and draws it with any of the four chart functions.                      *)
(***************************************************************************)
\* A timestamp as the service writes it, with or without its time part.
Timestamp(date, withTime) ==
    Str(IF withTime THEN <<date, "T", "00", ":", "00", ":", "00">> ELSE <<date>>)

PhenometricsInputs ==
    { [sos_t |-> Timestamp(sd, f), sos_v |-> Num(sv),
       pos_t |-> Timestamp("2021-04-01", f), pos_v |-> Num(9000),
       eos_t |-> Timestamp(ed, f), eos_v |-> Num(ev),
       vos_t |-> Timestamp("2021-12-20", f), vos_v |-> Num(4817)] :
         sd \in {"2021-01-02", "2021-01-17"}, ed \in {"2021-07-13", "2021-12-19"},
         sv \in {7649, 0}, ev \in {5489, 7649}, f \in BOOLEAN }

SeriesValues == { 5000, 8000 }

Ramp(n, start, step) == [i \in 1..n |-> Num(start + step * (i - 1))]

\* Every series of up to MaxSeriesLen values, and a flat and a rising series
\* of the lengths around the 21 points the advanced chart keeps.
SeriesInputs ==
    UNION { { [i \in 1..n |-> Num(f[i])] : f \in [1..n -> SeriesValues] } : n \in 0..MaxSeriesLen }
    \cup { Ramp(n, 5000, step) : n \in {TruncLen, TruncLen + 1, TruncLen + 2}, step \in {0, 100} }

ChartInputs ==
    { [timeline |-> [i \in 1..Len(v) |-> Timestamp(TimelineDates[i], TRUE)],
       values |-> v,
       phenometrics |-> ph] :
         v \in SeriesInputs, ph \in PhenometricsInputs }

\* The attr argument of the matplotlib and seaborn charts: its default, and
\* the two names the title is formatted with.
Attrs == { <<>>, <<"S2-16D-2", "NDVI">> }

ChartInit ==
    /\ op = ""
    /\ args = NoArgs
    /\ sent = <<>>
    /\ reply = Unreachable
    /\ outcome = Raise("")
    /\ nCalls = 0
    /\ nRequests = 0
    /\ ds_phenos \in ChartInputs
    /\ variant = ""
    /\ fig = NoFigure("")

PlotPhenometrics ==
    /\ \E cube \in Cubes :
         /\ variant' = "plot_phenometrics"
         /\ fig' = plot_phenometrics(cube, ds_phenos)
    /\ UNCHANGED <<ds_phenos, adapterVars>>

PlotPhenometricsMatplotlib ==
    /\ \E cube \in Cubes, attr \in Attrs :
         /\ variant' = "plot_phenometrics_matplotlib"
         /\ fig' = plot_phenometrics_matplotlib(cube, ds_phenos, attr)
    /\ UNCHANGED <<ds_phenos, adapterVars>>

PlotPhenometricsSeaborn ==
    /\ \E cube \in Cubes, attr \in Attrs :
         /\ variant' = "plot_phenometrics_seaborn"
         /\ fig' = plot_phenometrics_seaborn(cube, ds_phenos, attr)
    /\ UNCHANGED <<ds_phenos, adapterVars>>

PlotAdvancedPhenometrics ==
    /\ \E cube \in Cubes :
         /\ variant' = "plot_advanced_phenometrics"
         /\ fig' = plot_advanced_phenometrics(cube, ds_phenos)
    /\ UNCHANGED <<ds_phenos, adapterVars>>

ChartNext ==
    \/ PlotPhenometrics
    \/ PlotPhenometricsMatplotlib
    \/ PlotPhenometricsSeaborn
    \/ PlotAdvancedPhenometrics

ChartSpec == ChartInit /\ [][ChartNext]_vars

(***************************************************************************)
(* Properties of the adapter, checked under Spec.                          *)
(***************************************************************************)
\* The field of the response an operation consumes.
FieldOf(name) ==
    CASE name = "get_collections" -> "coverages"
      [] name = "get_description" -> "description"
      [] OTHER -> "result"

Called == op # ""

Answered == Called /\ reply.reached

HasField(doc, field) == doc.t = "obj" /\ field \in DOMAIN doc.fields

\* The position of the first token c in s, or 0.
RECURSIVE IndexOf(_, _)
IndexOf(s, c) ==
    IF s = <<>> THEN 0
    ELSE IF Head(s) = c THEN 1
    ELSE LET i == IndexOf(Tail(s), c) IN IF i = 0 THEN 0 ELSE i + 1

\* The parts of s between the separators c.
RECURSIVE SplitOn(_, _)
SplitOn(s, c) ==
    LET i == IndexOf(s, c)
    IN  IF i = 0 THEN <<s>>
        ELSE <<SubSeq(s, 1, i - 1)>> \o SplitOn(SubSeq(s, i + 1, Len(s)), c)

UrlPath(url) ==
    LET i == IndexOf(url, "?") IN IF i = 0 THEN url ELSE SubSeq(url, 1, i - 1)

UrlHasQuery(url) == IndexOf(url, "?") # 0

UrlQuery(url) ==
    LET i == IndexOf(url, "?") IN IF i = 0 THEN <<>> ELSE SubSeq(url, i + 1, Len(url))

\* What a server reads out of an encoded token.
unquote_plus_tok(c) ==
    CASE c = "+"   -> " "
      [] c = "%26" -> "&"
      [] c = "%3D" -> "="
      [] c = "%2B" -> "+"
      [] c = "%2F" -> "/"
      [] c = "%3F" -> "?"
      [] c = "%3A" -> ":"
      [] c = "%25" -> "%"
      [] OTHER     -> c

unquote_plus(s) == [i \in 1..Len(s) |-> unquote_plus_tok(s[i])]

\* The (name, value) pairs a server reads out of a query string.
parse_qsl(qs) ==
    LET parts == IF qs = <<>> THEN <<>> ELSE SplitOn(qs, "&")
        pair(part) ==
            LET i == IndexOf(part, "=")
            IN  IF i = 0 THEN <<unquote_plus(part), <<>> >>
                ELSE <<unquote_plus(SubSeq(part, 1, i - 1)),
                       unquote_plus(SubSeq(part, i + 1, Len(part)))>>
    IN  [k \in 1..Len(parts) |-> pair(parts[k])]

\* C1 (as claimed): whatever the route and the body, a response with a
\* non-success status ends the operation in an HTTPError, never in a decode
\* error and never in a returned value.
C1_NonSuccessIsHTTPError ==
    (Answered /\ ~IsSuccess(reply.status)) => (~outcome.ok /\ outcome.error = "HTTPError")

\* C2: get_phenometrics issues a GET to <url>/phenometrics whose query string
\* carries exactly the seven parameters collection, band, start_date,
\* end_date, freq, latitude and longitude, each once, with the values of the
\* cube descriptor and of the latitude and longitude arguments.
C2_PointQueryString ==
    op = "get_phenometrics" =>
        /\ Len(sent) = 1
        /\ sent[1].method = "GET"
        /\ sent[1].json = None
        /\ UrlPath(sent[1].url) = args.url \o <<"/", "phenometrics">>
        /\ LET q == parse_qsl(UrlQuery(sent[1].url))
           IN  /\ Len(q) = 7
               /\ { q[i] : i \in 1..Len(q) } =
                    { << <<"collection">>, args.cube.collection.s >>,
                      << <<"band">>, args.cube.band.s >>,
                      << <<"start_date">>, args.cube.start_date.s >>,
                      << <<"end_date">>, args.cube.end_date.s >>,
                      << <<"freq">>, args.cube.freq.s >>,
                      << <<"latitude">>, <<ToString(args.latitude.n)>> >>,
                      << <<"longitude">>, <<ToString(args.longitude.n)>> >> }

C2_Witness ==
    /\ op = "get_phenometrics"
    /\ IndexOf(args.cube.collection.s, "&") # 0
    /\ args.latitude.n # args.longitude.n
    /\ outcome.ok

\* C3 (as claimed): a success response whose body is not JSON, or is JSON
\* without the field the operation consumes, ends the operation in the one
\* decode error kind.
C3_BadBodyIsDecodeError ==
    (Answered /\ IsSuccess(reply.status)
        /\ (~reply.body.valid \/ ~HasField(reply.body.json, FieldOf(op))))
    => (~outcome.ok /\ outcome.error = "JSONDecodeError")

C5_ReturnsFieldUnchanged ==
    (Answered /\ IsSuccess(reply.status) /\ reply.body.valid
        /\ HasField(reply.body.json, FieldOf(op)))
    => outcome = Ok(reply.body.json.fields[FieldOf(op)])

\* C6: get_timeseries_region POSTs to <url>/timeseries a JSON body with
\* exactly the keys collection, band, start_date, end_date, freq and geom,
\* get_phenometrics_region POSTs to <url>/phenometrics one with exactly the
\* keys collection, band, start_date, end_date, freq and timeseries; the cube
\* fields are the cube descriptor's and geom / timeseries is the argument.
C6_RegionBodies ==
    /\ op = "get_timeseries_region" =>
        /\ Len(sent) = 1
        /\ sent[1].method = "POST"
        /\ sent[1].url = args.url \o <<"/", "timeseries">>
        /\ sent[1].json.t = "obj"
        /\ DOMAIN sent[1].json.fields =
             {"collection", "band", "start_date", "end_date", "freq", "geom"}
        /\ \A k \in {"collection", "band", "start_date", "end_date", "freq"} :
             sent[1].json.fields[k] = args.cube[k]
        /\ sent[1].json.fields["geom"] = args.geom
    /\ op = "get_phenometrics_region" =>
        /\ Len(sent) = 1
        /\ sent[1].method = "POST"
        /\ sent[1].url = args.url \o <<"/", "phenometrics">>
        /\ sent[1].json.t = "obj"
        /\ DOMAIN sent[1].json.fields =
             {"collection", "band", "start_date", "end_date", "freq", "timeseries"}
        /\ \A k \in {"collection", "band", "start_date", "end_date", "freq"} :
             sent[1].json.fields[k] = args.cube[k]
        /\ sent[1].json.fields["timeseries"] = args.timeseries

C6_Witness ==
    /\ op = "get_phenometrics_region"
    /\ args.timeseries # List(<<>>)
    /\ outcome.ok

\* C7: get_collections and get_description each issue a GET, to
\* <url>/list_collections and <url>/describe, with no body and no query
\* parameters, for every base URL.
C7_PlainGets ==
    /\ op = "get_collections" =>
         sent = <<Request("GET", args.url \o <<"/", "list_collections">>, None)>>
    /\ op = "get_description" =>
         sent = <<Request("GET", args.url \o <<"/", "describe">>, None)>>
    /\ op \in {"get_collections", "get_description"} =>
         /\ ~UrlHasQuery(sent[1].url)
         /\ parse_qsl(UrlQuery(sent[1].url)) = <<>>

C7_Witness == op = "get_description" /\ outcome.ok /\ Len(args.url) > 5

(***************************************************************************)
(* Properties of the chart builders, checked under ChartSpec.              *)
(***************************************************************************)
\* The point in time an x coordinate or a timestamp of the service denotes,
\* as <<day, second of the day>>; a string without a time part is midnight,
\* and so is every time part the service writes.
InstantOf(v) == IF v.t = "datetime" THEN <<v.day, v.sec>> ELSE <<DayNumber(v.s[1]), 0>>

Instants(xs) == [i \in 1..Len(xs) |-> InstantOf(xs[i])]

TracesNamed(name) == SelectSeq(fig.traces, LAMBDA tr : tr.name = name)

Drawn == fig.ok

\* C8: in every chart variant the LIOS fill polygon has exactly the five
\* vertices (sos_t, 0), (sos_t, sos_v), (pos_t, pos_v), (eos_t, eos_v),
\* (eos_t, 0), in this order, so it starts and ends at y = 0.
C8_LiosPolygon ==
    Drawn =>
        LET lios == TracesNamed(<<"LIOS">>)
            ph == ds_phenos.phenometrics
        IN  /\ Len(lios) = 1
            /\ Len(lios[1].x) = 5
            /\ Len(lios[1].y) = 5
            /\ Instants(lios[1].x) =
                 << InstantOf(ph.sos_t), InstantOf(ph.sos_t), InstantOf(ph.pos_t),
                    InstantOf(ph.eos_t), InstantOf(ph.eos_t) >>
            /\ lios[1].y = <<Num(0), ph.sos_v, ph.pos_v, ph.eos_v, Num(0)>>

C8_Witness ==
    /\ Drawn
    /\ variant = "plot_phenometrics_seaborn"
    /\ ds_phenos.phenometrics.sos_v # Num(0)
    /\ ds_phenos.phenometrics.sos_t # split_T0(ds_phenos.phenometrics.sos_t)

\* C9 (as claimed): every chart variant draws the LOS segment, the two-point
\* line from (sos_t, sos_v) to (eos_t, eos_v).
C9_LosInEveryVariant ==
    Drawn =>
        LET los == TracesNamed(<<"LOS">>)
            ph == ds_phenos.phenometrics
        IN  /\ Len(los) = 1
            /\ Instants(los[1].x) = <<InstantOf(ph.sos_t), InstantOf(ph.eos_t)>>
            /\ los[1].y = <<ph.sos_v, ph.eos_v>>

\* C10: only the advanced (region) chart draws uncertainty bands; it draws
\* exactly two, the first from 16 days before to 16 days after the date of
\* sos_t and the second likewise around the date of eos_t, 32 days wide each.
C10_UncertaintyBands ==
    Drawn =>
        IF variant = "plot_advanced_phenometrics"
        THEN LET ph == ds_phenos.phenometrics
                 sos_day == DayNumber(ph.sos_t.s[1])
                 eos_day == DayNumber(ph.eos_t.s[1])
             IN  /\ Len(fig.vrects) = 2
                 /\ InstantOf(fig.vrects[1].x0) = <<sos_day - 16, 0>>
                 /\ InstantOf(fig.vrects[1].x1) = <<sos_day + 16, 0>>
                 /\ InstantOf(fig.vrects[2].x0) = <<eos_day - 16, 0>>
                 /\ InstantOf(fig.vrects[2].x1) = <<eos_day + 16, 0>>
                 /\ \A i \in 1..2 : fig.vrects[i].x1.day - fig.vrects[i].x0.day = 32
        ELSE fig.vrects = <<>>

C10_Witness ==
    /\ Drawn
    /\ variant = "plot_advanced_phenometrics"
    /\ DayNumber(ds_phenos.phenometrics.sos_t.s[1]) < 16

(***************************************************************************)
(* Properties of the smoothed curve, checked under ChartSpec. Every chart  *)
(* function puts smooth_timeseries(values, 'savitsky', window_length=3),   *)
(* as it comes out, into its trace "Smooth <band>".                        *)
(***************************************************************************)
FixedLabels == { <<"LIOS">>, <<"LOS">>, <<"AOS">>, <<"SOS">>, <<"POS">>, <<"EOS">>, <<"VOS">> }

SmoothTraces == SelectSeq(fig.traces, LAMBDA tr : Head(tr.name) = "Smooth")

RawTraces ==
    SelectSeq(fig.traces, LAMBDA tr : tr.name \notin FixedLabels /\ Head(tr.name) # "Smooth")

\* A series whose consecutive values differ by one constant step.
IsLinear(values) ==
    \A i \in 2..(Len(values) - 1) :
        values[i + 1].n - values[i].n = values[2].n - values[1].n

\* C11: smoothing with window length 3 and polynomial order 1 returns, for
\* every series of at least 3 values, as many values as it was given; a
\* series of 3 values gives 3 values.
C11_SmoothKeepsLength ==
    /\ Drawn =>
        /\ Len(ds_phenos.values) >= 3
        /\ Len(SmoothTraces) = 1
        /\ Len(SmoothTraces[1].y) = Len(ds_phenos.values)
    /\ (variant # "" /\ Len(ds_phenos.values) >= 3 /\ ~Drawn) => fig.error = "IndexError"

C11_Witness ==
    /\ Drawn
    /\ variant = "plot_phenometrics"
    /\ Len(ds_phenos.values) = 3
    /\ ds_phenos.values[1] # ds_phenos.values[2]

C13_SmoothMatchesTimeline ==
    Drawn =>
        /\ Len(SmoothTraces) = 1
        /\ Len(RawTraces) = 1
        /\ Len(SmoothTraces[1].y) = Len(SmoothTraces[1].x)
        /\ Len(SmoothTraces[1].y) = Len(RawTraces[1].y)
        /\ Len(RawTraces[1].x) = Len(RawTraces[1].y)

====
